---- MODULE Spec2Model ----
(***************************************************************************)
(* A model of analyze_music.py: main() and analyze_music().                *)
(*                                                                         *)
(* Numbers.  The program computes in IEEE 754 arithmetic, and so does the  *)
(* model: a double is a record [k, s, m, e], and FAdd, FSub, FMul, FDiv    *)
(* and FLess are the correctly rounded operations on doubles.  The curves  *)
(* librosa returns (onset strength, spectrogram) are float32 arrays, so    *)
(* the curves, their means, the threshold and the intensity quotient are   *)
(* float32s, computed by Add32, Sub32, Mul32 and Div32; durations, times   *)
(* and ticks are doubles.                                                  *)
(*   - What librosa hands the program (the record `audio`) is written in   *)
(*     integers: a time is a count n of 1/TimeDen s and stands for the     *)
(*     double n / 8000.0; a raw curve value is an integer v and stands for *)
(*     the float32 of v; a tempo is a count of tenths of a BPM.            *)
(*   - What the program holds (times, curves, thresholds, ticks) is held   *)
(*     as such records, a float32 as the double of the same value.         *)
(*   - What the program emits after round(x, n) is an integer count of     *)
(*     10^-n, the decimal number json.dump writes; nan is NaN, inf is Inf. *)
(* Python indices are 0-based and TLA+ sequences 1-based: the frame with   *)
(* Python index i is element i + 1 of its sequence.                        *)
(***************************************************************************)
EXTENDS Integers, Sequences, FiniteSets, TLC

VARIABLES
    pc,                 \* where main()/analyze_music() stands
    argv,               \* the command line arguments after the script name
    audio,              \* what librosa yields for the file named by argv
    file,               \* the state of music_timeline.json on disk
    printed,            \* the kinds of message written to standard output
    exit_status,        \* the process's exit status once pc = "exit"
    zero_div,           \* source lines at which a float division by zero ran
    duration, tempo, beat_times,
    onset_env, onset_times,
    bass_energy, mid_energy, high_energy, spec_times,
    bass_threshold,     \* np.percentile(bass_energy, 85)
    drops, last_drop_time,
    big_drops, last_big_drop_time,
    i,                  \* the loop variable of the two frame loops
    ticks,              \* np.arange(0, duration, sample_interval)
    k,                  \* how many ticks the timeline loop has handled
    timeline,
    data                \* what analyze_music returned

vars == <<pc, argv, audio, file, printed, exit_status, zero_div,
          duration, tempo, beat_times, onset_env, onset_times,
          bass_energy, mid_energy, high_energy, spec_times, bass_threshold,
          drops, last_drop_time, big_drops, last_big_drop_time,
          i, ticks, k, timeline, data>>

(***************************************************************************)
(* Natural numbers of any size: sequences of limbs, least significant      *)
(* first, no leading zero limb; zero is the empty sequence                 *)
(***************************************************************************)
LimbBits == 15

Base == 2 ^ LimbBits

Limb(a, j) == IF j <= Len(a) THEN a[j] ELSE 0

Zeros(q) == [j \in 1..q |-> 0]

RECURSIVE BTrim(_)
BTrim(a) == IF Len(a) > 0 /\ a[Len(a)] = 0 THEN BTrim(SubSeq(a, 1, Len(a) - 1)) ELSE a

RECURSIVE BFromInt(_)
BFromInt(n) == IF n = 0 THEN <<>> ELSE <<n % Base>> \o BFromInt(n \div Base)

RECURSIVE BToInt(_)
BToInt(a) == IF a = <<>> THEN 0 ELSE a[1] + Base * BToInt(Tail(a))

RECURSIVE BAddFrom(_, _, _, _)
BAddFrom(a, b, j, carry) ==
    IF j > Len(a) /\ j > Len(b)
    THEN (IF carry = 0 THEN <<>> ELSE <<carry>>)
    ELSE LET s == Limb(a, j) + Limb(b, j) + carry
         IN  <<s % Base>> \o BAddFrom(a, b, j + 1, s \div Base)

BAdd(a, b) == BAddFrom(a, b, 1, 0)

RECURSIVE BSubFrom(_, _, _, _)
BSubFrom(a, b, j, borrow) ==
    IF j > Len(a) THEN <<>>
    ELSE LET s == a[j] - Limb(b, j) - borrow
         IN  IF s < 0 THEN <<s + Base>> \o BSubFrom(a, b, j + 1, 1)
                      ELSE <<s>> \o BSubFrom(a, b, j + 1, 0)

\* a - b, for a >= b
BSub(a, b) == BTrim(BSubFrom(a, b, 1, 0))

RECURSIVE BCmpFrom(_, _, _)
BCmpFrom(a, b, j) ==
    IF j = 0 THEN 0
    ELSE IF a[j] < b[j] THEN -1
    ELSE IF a[j] > b[j] THEN 1
    ELSE BCmpFrom(a, b, j - 1)

\* -1, 0 or 1 as a < b, a = b or a > b
BCmp(a, b) ==
    IF Len(a) < Len(b) THEN -1
    ELSE IF Len(a) > Len(b) THEN 1
    ELSE BCmpFrom(a, b, Len(a))

RECURSIVE BMulSmallFrom(_, _, _, _)
BMulSmallFrom(a, n, j, carry) ==
    IF j > Len(a) THEN (IF carry = 0 THEN <<>> ELSE <<carry>>)
    ELSE LET p == a[j] * n + carry
         IN  <<p % Base>> \o BMulSmallFrom(a, n, j + 1, p \div Base)

\* a * n, for 0 <= n < Base
BMulSmall(a, n) == IF n = 0 THEN <<>> ELSE BMulSmallFrom(a, n, 1, 0)

RECURSIVE BMulFrom(_, _, _)
BMulFrom(a, b, j) ==
    IF j > Len(b) THEN <<>>
    ELSE BAdd(IF b[j] = 0 THEN <<>> ELSE Zeros(j - 1) \o BMulSmall(a, b[j]),
              BMulFrom(a, b, j + 1))

BMul(a, b) == BTrim(BMulFrom(a, b, 1))

RECURSIVE BDivSmallFrom(_, _, _, _)
BDivSmallFrom(a, d, j, rem) ==
    IF j = 0 THEN [q |-> <<>>, r |-> rem]
    ELSE LET cur  == rem * Base + a[j]
             rest == BDivSmallFrom(a, d, j - 1, cur % d)
         IN  [q |-> rest.q \o <<cur \div d>>, r |-> rest.r]

\* quotient and remainder of a by d, for 0 < d < 2 * Base
BDivSmall(a, d) ==
    LET x == BDivSmallFrom(a, d, Len(a), 0)
    IN  [q |-> BTrim(x.q), r |-> x.r]

\* a * 2^s
BShl(a, s) ==
    IF a = <<>> THEN <<>>
    ELSE Zeros(s \div LimbBits) \o BMulSmall(a, 2 ^ (s % LimbBits))

\* floor(a / 2^s)
BShr(a, s) ==
    IF s \div LimbBits >= Len(a) THEN <<>>
    ELSE BDivSmall(SubSeq(a, s \div LimbBits + 1, Len(a)), 2 ^ (s % LimbBits)).q

\* the number of binary digits of a
BBitLen(a) ==
    IF a = <<>> THEN 0
    ELSE LimbBits * (Len(a) - 1)
         + (CHOOSE b \in 1..LimbBits : 2 ^ (b - 1) <= a[Len(a)] /\ a[Len(a)] < 2 ^ b)

\* the number of trailing zero binary digits of a # 0
RECURSIVE BLowZeros(_)
BLowZeros(a) ==
    IF a[1] = 0 THEN LimbBits + BLowZeros(Tail(a))
    ELSE CHOOSE b \in 0..(LimbBits - 1) : a[1] % (2 ^ (b + 1)) = 2 ^ b

\* q or q + 1, as half (the sign of remainder - 1/2) and the parity of q say
BRoundTo(q, half) ==
    IF half > 0 \/ (half = 0 /\ Limb(q, 1) % 2 = 1) THEN BAdd(q, <<1>>) ELSE q

\* n / 2^s to the nearest integer, a tie to the even one, from q = floor(n / 2^s)
BRoundUp(q, n, s) == BRoundTo(q, BCmp(BShl(BSub(n, BShl(q, s)), 1), BShl(<<1>>, s)))

\* n / 2^s to the nearest integer, a tie to the even one
BRoundShr(n, s) == IF s <= 0 THEN BShl(n, -s) ELSE BRoundUp(BShr(n, s), n, s)

(***************************************************************************)
(* IEEE 754 binary64.  A finite double is s * m * 2^e with s = 1 or -1     *)
(* and m = 0 or 2^52 <= m < 2^53; every operation rounds its exact result  *)
(* to the nearest double, a tie to the even significand.                   *)
(***************************************************************************)
Precision == 53

FZero == [k |-> "num", s |-> 1, m |-> <<>>, e |-> 0]

FNaN == [k |-> "nan", s |-> 1, m |-> <<>>, e |-> 0]

FInf == [k |-> "inf", s |-> 1, m |-> <<>>, e |-> 0]

\* s * m * 2^e for a significand of Precision digits, or one digit more
\* after a rounding that carried
FPack(s, m, e) ==
    IF BBitLen(m) > Precision
    THEN [k |-> "num", s |-> s, m |-> BShr(m, 1), e |-> e + 1]
    ELSE [k |-> "num", s |-> s, m |-> m, e |-> e]

\* the double nearest to s * n * 2^e, n having Precision + shift digits
FRoundAt(s, n, e, shift) == FPack(s, BRoundShr(n, shift), e + shift)

\* the double nearest to s * n * 2^e
FRound(s, n, e) == IF n = <<>> THEN FZero ELSE FRoundAt(s, n, e, BBitLen(n) - Precision)

\* float(n) of an integer
FInt(n) == FRound(IF n < 0 THEN -1 ELSE 1, BFromInt(IF n < 0 THEN -n ELSE n), 0)

FIsZero(x) == x.k = "num" /\ x.m = <<>>

FNeg(x) == IF FIsZero(x) THEN x ELSE [x EXCEPT !.s = -x.s]

FAbs(x) == [x EXCEPT !.s = 1]

\* the double nearest to (sx * nx + sy * ny) * 2^e
FAddAligned(sx, nx, sy, ny, e) ==
    FRound(IF sx = sy \/ BCmp(nx, ny) >= 0 THEN sx ELSE sy,
           IF sx = sy THEN BAdd(nx, ny)
           ELSE IF BCmp(nx, ny) >= 0 THEN BSub(nx, ny) ELSE BSub(ny, nx),
           e)

\* x + y of two finite doubles, in units of 2^e, e the lesser exponent
FAddAt(x, y, e) == FAddAligned(x.s, BShl(x.m, x.e - e), y.s, BShl(y.m, y.e - e), e)

\* x + y
FAdd(x, y) ==
    IF x.k = "nan" \/ y.k = "nan" THEN FNaN
    ELSE IF x.k = "inf" THEN (IF y.k = "inf" /\ y.s # x.s THEN FNaN ELSE x)
    ELSE IF y.k = "inf" THEN y
    ELSE IF FIsZero(x) THEN y
    ELSE IF FIsZero(y) THEN x
    ELSE FAddAt(x, y, IF x.e < y.e THEN x.e ELSE y.e)

\* x - y
FSub(x, y) == FAdd(x, FNeg(y))

\* x * y
FMul(x, y) ==
    IF x.k = "nan" \/ y.k = "nan" THEN FNaN
    ELSE IF x.k = "inf" \/ y.k = "inf"
    THEN (IF FIsZero(x) \/ FIsZero(y) THEN FNaN ELSE [FInf EXCEPT !.s = x.s * y.s])
    ELSE IF FIsZero(x) \/ FIsZero(y) THEN FZero
    ELSE FRound(x.s * y.s, BMul(x.m, y.m), x.e + y.e)

\* long division, one binary digit a step: st.n is what remains to divide
\* (st.n < 2 * d) and st.q the digits found; after `steps` steps from
\* [n |-> n0, q |-> 0], q = floor(n0 * 2^(steps - 1) / d), exact iff n = 0
RECURSIVE LongDivide(_, _, _)
LongDivide(st, d, steps) ==
    IF steps = 0 \/ st.n = <<>> THEN [n |-> st.n, q |-> BShl(st.q, steps)]
    ELSE LongDivide(IF BCmp(st.n, d) >= 0
                    THEN [n |-> BShl(BSub(st.n, d), 1), q |-> BAdd(BShl(st.q, 1), <<1>>)]
                    ELSE [n |-> BShl(st.n, 1), q |-> BShl(st.q, 1)],
                    d, steps - 1)

\* a quotient q * 2^e with one more digit, set when the division left a
\* remainder, so that rounding sees where the exact quotient lies
Sticky(q, exact, e) == [n |-> BAdd(BShl(q, 1), IF exact THEN <<>> ELSE <<1>>), e |-> e - 1]

ShortQuotient(x2, e) == Sticky(x2.q, x2.r = 0, e)

LongQuotient(st, e) == Sticky(st.q, st.n = <<>>, e)

\* x.m * 2^x.e / (y.m * 2^y.e) to Precision + 3 digits or more, y.m being
\* d * 2^low: by one short division when d has few digits, else by long
\* division
QuotientBy(x, y, low, d) ==
    IF BBitLen(d) <= LimbBits + 1
    THEN ShortQuotient(BDivSmall(BShl(x.m, 2 * LimbBits + 3), BToInt(d)),
                       x.e - y.e - low - 2 * LimbBits - 3)
    ELSE LongQuotient(LongDivide([n |-> x.m, q |-> <<>>], y.m, Precision + 4),
                      x.e - y.e - Precision - 3)

Quotient(x, y, low) == QuotientBy(x, y, low, BShr(y.m, low))

FRoundQuotient(s, qt) == FRound(s, qt.n, qt.e)

\* x / y as numpy divides: a zero divisor gives nan (0 / 0) or inf
FDiv(x, y) ==
    IF x.k = "nan" \/ y.k = "nan" THEN FNaN
    ELSE IF x.k = "inf" THEN (IF y.k = "inf" THEN FNaN ELSE [FInf EXCEPT !.s = x.s * y.s])
    ELSE IF y.k = "inf" THEN FZero
    ELSE IF FIsZero(y) THEN (IF FIsZero(x) THEN FNaN ELSE [FInf EXCEPT !.s = x.s])
    ELSE IF FIsZero(x) THEN FZero
    ELSE FRoundQuotient(x.s * y.s, Quotient(x, y, BLowZeros(y.m)))

\* x < y: nan is less than nothing and nothing is less than nan; -inf is
\* below and +inf above every finite double
FLess(x, y) ==
    IF x.k = "nan" \/ y.k = "nan" THEN FALSE
    ELSE IF x.k = "inf" THEN x.s = -1 /\ ~(y.k = "inf" /\ y.s = -1)
    ELSE IF y.k = "inf" THEN y.s = 1
    ELSE IF FIsZero(x) THEN (~FIsZero(y) /\ y.s = 1)
    ELSE IF FIsZero(y) THEN x.s = -1
    ELSE IF x.s # y.s THEN x.s = -1
    ELSE LET c == IF x.e # y.e THEN (IF x.e < y.e THEN -1 ELSE 1) ELSE BCmp(x.m, y.m)
         IN  IF x.s = 1 THEN c < 0 ELSE c > 0

\* the double n / d of two integers: the double of a decimal literal
Float(n, d) == FDiv(FInt(n), FInt(d))

\* floor(x) and ceil(x) of a double x >= 0, as integers
FFloor(x) == IF x.e >= 0 THEN BToInt(BShl(x.m, x.e)) ELSE BToInt(BShr(x.m, -x.e))

FCeil(x) ==
    IF x.e >= 0 \/ BShl(BShr(x.m, -x.e), -x.e) = x.m THEN FFloor(x) ELSE FFloor(x) + 1

(***************************************************************************)
(* IEEE 754 binary32, the type of the arrays librosa returns.  A float32   *)
(* is held as the double of the same value.  An operation on float32s      *)
(* gives the float32 nearest to its exact result, which is the double      *)
(* result rounded to single: Precision >= 2 * Single + 2, so the two       *)
(* roundings give what one rounding gives.                                 *)
(***************************************************************************)
Single == 24

\* the exponents of the least float32 above 0, 2^-149, and of the binade
\* of the greatest, below 2^128
SingleMinExp == -149

SingleMaxExp == 127

\* the float32 s * r * 2^e of a rounded significand r: zero, or inf from
\* 2^128 on
F32Pack(s, r, e) ==
    IF r = <<>> THEN FZero
    ELSE IF BBitLen(r) + e > SingleMaxExp + 1 THEN [FInf EXCEPT !.s = s]
    ELSE FRound(s, r, e)

\* x rounded at its digit number `drop` from the right
F32At(x, drop) == F32Pack(x.s, BRoundShr(x.m, drop), x.e + drop)

\* np.float32(x): the float32 nearest to the double x, a tie to the even
\* significand; Single digits, fewer below 2^-126
F32(x) ==
    IF x.k # "num" \/ x.m = <<>> THEN x
    ELSE F32At(x, IF SingleMinExp - x.e > Precision - Single
                  THEN SingleMinExp - x.e ELSE Precision - Single)

\* the float32 operations
Add32(x, y) == F32(FAdd(x, y))

Sub32(x, y) == F32(FSub(x, y))

Mul32(x, y) == F32(FMul(x, y))

Div32(x, y) == F32(FDiv(x, y))

(***************************************************************************)
(* Rounded output                                                          *)
(***************************************************************************)
\* what stands for nan and for inf among rounded numbers
NaN == -1

Inf == -2

\* Python's round(x, digits) of a double x >= 0, as a count of 1/scale: the
\* exact value of x * scale to the nearest integer, a tie to the even one;
\* nan and inf round to themselves
PyRound(x, scale) ==
    IF x.k = "nan" THEN NaN
    ELSE IF x.k = "inf" THEN Inf
    ELSE BToInt(BRoundShr(BMulSmall(x.m, scale), -x.e))

\* round(t, digits) of a numpy float64: rint(t * scale) / scale, as a count
\* of 1/scale
NpRound(x, scale) == PyRound(FMul(x, FInt(scale)), 1)

(***************************************************************************)
(* Units and the program's constants                                       *)
(***************************************************************************)
\* the times of `audio` are counted in 1/8000 s
TimeDen == 8 * 1000

\* the double a time of `audio` stands for
Seconds(n) == Float(n, TimeDen)

\* the float32 array a raw curve of `audio` stands for: librosa computes
\* the onset strength and the spectrogram in single precision
Values(raw) == [j \in DOMAIN raw |-> F32(FInt(raw[j]))]

lookback == 5
spike_ratio == Float(3, 2)
threshold_percentile == 85
min_drop_gap == FInt(2)
window_before == 40
window_after == 20
quiet_ceiling == Float(15, 100)
loud_floor == Float(3, 10)
min_ratio == FInt(3)
min_big_drop_gap == FInt(10)
sample_interval == Float(5, 100)
drop_window == Float(1, 10)
default_tempo == FInt(120)

(***************************************************************************)
(* The numpy operations of analyze_music.  On a float32 array or scalar    *)
(* they compute in float32, and a Python number met by a float32 is taken  *)
(* as a float32 (numpy 2); the times are float64.                          *)
(***************************************************************************)
Range(s) == {s[j] : j \in DOMAIN s}

\* np.max of a non-empty array: nan if it holds one
Max(s) ==
    IF \E x \in Range(s) : x.k = "nan" THEN FNaN
    ELSE CHOOSE m \in Range(s) : \A x \in Range(s) : ~FLess(m, x)

\* curve / m, elementwise, of a float32 array by a float32
Divide(curve, m) ==
    LET quotient == [v \in Range(curve) |-> Div32(v, m)]
    IN  [j \in DOMAIN curve |-> quotient[curve[j]]]

\* x / np.max(x), unguarded (line 52)
NormalizeOnset(curve) == Divide(curve, Max(curve))

\* x / np.max(x) if np.max(x) > 0 else x (lines 72-74)
NormalizeBand(curve) == IF FLess(FZero, Max(curve)) THEN Divide(curve, Max(curve)) ELSE curve

\* acc + s[j] + s[j + step] + ... up to index last, added in that order,
\* in float32
RECURSIVE SumFrom(_, _, _, _, _)
SumFrom(acc, s, j, step, last) ==
    IF j > last THEN acc ELSE SumFrom(Add32(acc, s[j]), s, j + step, step, last)

\* r[lo] + ... + r[hi] added by halves: ((r1 + r2) + (r3 + r4)) + ...
RECURSIVE SumByHalves(_, _, _)
SumByHalves(r, lo, hi) ==
    IF lo = hi THEN r[lo]
    ELSE Add32(SumByHalves(r, lo, (lo + hi) \div 2), SumByHalves(r, (lo + hi) \div 2 + 1, hi))

\* the 8 interleaved partial sums of the first `full` values
Lanes(s, full) == [j \in 1..8 |-> SumFrom(s[j], s, j + 8, 8, full)]

\* np.add.reduce of a contiguous float32 array: numpy's pairwise summation, which
\* adds fewer than 8 values in order, up to 128 values in 8 interleaved
\* partial sums (then what is left over a multiple of 8), and more by halves
RECURSIVE PairwiseSum(_)
PairwiseSum(s) ==
    IF Len(s) < 8 THEN SumFrom(FZero, s, 1, 1, Len(s))
    ELSE IF Len(s) <= 128
    THEN SumFrom(SumByHalves(Lanes(s, Len(s) - (Len(s) % 8)), 1, 8),
                 s, Len(s) - (Len(s) % 8) + 1, 1, Len(s))
    ELSE Add32(PairwiseSum(SubSeq(s, 1, (Len(s) \div 2) - ((Len(s) \div 2) % 8))),
              PairwiseSum(SubSeq(s, (Len(s) \div 2) - ((Len(s) \div 2) % 8) + 1, Len(s))))

\* np.mean of a non-empty float32 slice: the float32 sum over the count,
\* as a float32
Mean(s) == Div32(PairwiseSum(s), FInt(Len(s)))

\* sorted(s)[kk], kk counted from 0
KthSmallest(s, kk) ==
    CHOOSE v \in Range(s) :
        /\ Cardinality({j \in DOMAIN s : FLess(s[j], v)}) <= kk
        /\ kk < Cardinality({j \in DOMAIN s : ~FLess(v, s[j])})

\* numpy's interpolation between lo and hi, diff = hi - lo:
\* lo + diff * gamma, or hi - diff * (1 - gamma) from gamma = 0.5 on
LerpBy(lo, hi, gamma, diff) ==
    IF FLess(gamma, Float(1, 2))
    THEN Add32(lo, Mul32(diff, gamma))
    ELSE Sub32(hi, Mul32(diff, Sub32(FInt(1), gamma)))

Lerp(lo, hi, gamma) == LerpBy(lo, hi, gamma, Sub32(hi, lo))

\* the interpolation at the virtual index, prev = floor(virtual): between
\* the order statistics prev and prev + 1, with gamma = virtual - prev
PercentileAt(s, virtual, prev) ==
    Lerp(KthSmallest(s, prev),
         KthSmallest(s, IF prev + 1 < Len(s) THEN prev + 1 ELSE prev),
         Sub32(virtual, FInt(prev)))

PercentileFrom(s, virtual) == PercentileAt(s, virtual, FFloor(virtual))

\* np.percentile(s, q) of a float32 array, method 'linear', at the virtual
\* index (n - 1) * (q / 100): the quantile, the index and the interpolation
\* are float32s
Percentile(s, q) == PercentileFrom(s, Mul32(FInt(Len(s) - 1), Div32(FInt(q), FInt(100))))

\* np.abs(a - b)
AbsDiff(a, b) == FAbs(FSub(a, b))

\* np.argmin(np.abs(times - t)): a scan that keeps the first index of the
\* least distance seen so far
RECURSIVE ArgMinFrom(_, _, _, _)
ArgMinFrom(times, t, j, best) ==
    IF j >= Len(times) THEN best
    ELSE ArgMinFrom(times, t, j + 1,
                    IF FLess(AbsDiff(times[j + 1], t), AbsDiff(times[best + 1], t))
                    THEN j ELSE best)

\* the scan keeping the last index of the least distance
RECURSIVE ArgMinLastFrom(_, _, _, _)
ArgMinLastFrom(times, t, j, best) ==
    IF j >= Len(times) THEN best
    ELSE ArgMinLastFrom(times, t, j + 1,
                        IF FLess(AbsDiff(times[best + 1], t), AbsDiff(times[j + 1], t))
                        THEN best ELSE j)

ArgMinAbs_Last(times, t) == ArgMinLastFrom(times, t, 1, 0)

ArgMinAbs(times, t) == ArgMinFrom(times, t, 1, 0)

\* the stop value taken as included
ArangeLen_Inclusive(stop, step) ==
    IF FLess(stop, FZero) THEN 0 ELSE FFloor(FDiv(stop, step)) + 1

\* len(np.arange(0, stop, step)) = max(0, ceil(stop / step))
ArangeLen(stop, step) == IF FLess(FZero, stop) THEN FCeil(FDiv(stop, step)) ELSE 0

\* np.arange(0, stop, step): element n is 0 + n * step
Arange(stop, step) == [n \in 1..ArangeLen(stop, step) |-> FMul(FInt(n - 1), step)]

(***************************************************************************)
(* Transient drops (lines 80-94)                                           *)
(***************************************************************************)
\* np.mean(bass_energy[i-5:i])
RecentAvg(curve, idx) == Mean(SubSeq(curve, idx - lookback + 1, idx))

\* the ratio test passing at exactly 1.5 times the recent average
IsSpike_AtLeast(curve, threshold, idx) ==
    LET current == curve[idx + 1]
    IN  /\ FLess(threshold, current)
        /\ ~FLess(current, Mul32(RecentAvg(curve, idx), F32(spike_ratio)))

\* current > bass_threshold and current > recent_avg * 1.5, float32s
IsSpike(curve, threshold, idx) ==
    LET current == curve[idx + 1]
    IN  /\ FLess(threshold, current)
        /\ FLess(Mul32(RecentAvg(curve, idx), F32(spike_ratio)), current)

\* the debounce forgotten: any later frame passes
DropGapOk_NoGap(t, last) == FLess(last, t)

\* (t - last_drop_time) > min_drop_gap
DropGapOk(t, last) == FLess(min_drop_gap, FSub(t, last))

(***************************************************************************)
(* Big drops (lines 101-124)                                               *)
(***************************************************************************)
\* np.mean(bass_energy[i-window_before:i])
BassBefore(curve, idx) == Mean(SubSeq(curve, idx - window_before + 1, idx))

\* the window after the frame starting one frame late
BassAfter_Late(curve, idx) == Mean(SubSeq(curve, idx + 2, idx + 1 + window_after))

\* np.mean(bass_energy[i:i+window_after])
BassAfter(curve, idx) == Mean(SubSeq(curve, idx + 1, idx + window_after))

\* bass_before < 0.15 and bass_after > 0.3 and bass_after > bass_before * 3:
\* the two means are float32s, and so are 0.15, 0.3 and the product
IsBassLineStart(before, after) ==
    /\ FLess(before, F32(quiet_ceiling))
    /\ FLess(F32(loud_floor), after)
    /\ FLess(Mul32(before, F32(min_ratio)), after)

\* the debounce forgotten: any later frame passes
BigDropGapOk_NoGap(t, last) == FLess(last, t)

\* (t - last_big_drop_time) > min_big_drop_gap
BigDropGapOk(t, last) == FLess(min_big_drop_gap, FSub(t, last))

\* round(float(bass_after / bass_before), 2) if bass_before > 0 else 10.0,
\* in hundredths: a float32 quotient, rounded as the double of its value
Intensity(before, after) ==
    IF FLess(FZero, before) THEN PyRound(Div32(after, before), 100) ELSE 1000

\* round(float(t / duration * 100), 1), in tenths
Percent(t, dur) == PyRound(FMul(FDiv(t, dur), FInt(100)), 10)

\* round(float(t), 3), in milliseconds
RoundTime(t) == PyRound(t, 1000)

BigDrop(t, dur, before, after) ==
    [time |-> RoundTime(t), percent |-> Percent(t, dur), intensity |-> Intensity(before, after)]

(***************************************************************************)
(* Timeline (lines 128-151)                                                *)
(***************************************************************************)
\* round(float(curve[idx]), 3), in thousandths: the float32 sample as a
\* double, then Python's round
Sample(curve, idx) == PyRound(curve[idx + 1], 1000)

\* any(abs(bt - t) < sample_interval / 2 for bt in beat_times)
IsBeat(beats, t) ==
    \E n \in DOMAIN beats : FLess(AbsDiff(beats[n], t), FDiv(sample_interval, FInt(2)))

\* any(abs(d - t) < 0.1 for d in drops); a drop held as a count of
\* milliseconds is the double nearest to that decimal number
IsDrop(ds, t) == \E n \in DOMAIN ds : FLess(AbsDiff(Float(ds[n], 1000), t), drop_window)

\* lines 136-150 with the two indices found
EntryAt(t, onset_idx, spec_idx) ==
    [t     |-> NpRound(t, 1000),
     bass  |-> Sample(bass_energy, spec_idx),
     mid   |-> Sample(mid_energy, spec_idx),
     high  |-> Sample(high_energy, spec_idx),
     onset |-> Sample(onset_env, onset_idx),
     beat  |-> IsBeat(beat_times, t),
     drop  |-> IsDrop(drops, t)]

Entry(t) == EntryAt(t, ArgMinAbs(onset_times, t), ArgMinAbs(spec_times, t))

(***************************************************************************)
(* main() and analyze_music(), one action per step                         *)
(***************************************************************************)
analysis_vars == <<duration, tempo, beat_times, onset_env, onset_times,
                   bass_energy, mid_energy, high_energy, spec_times, bass_threshold,
                   drops, last_drop_time, big_drops, last_big_drop_time,
                   i, ticks, k, timeline, data>>

\* lines 168-171: no file argument
Usage ==
    /\ pc = "main"
    /\ Len(argv) < 1
    /\ printed' = printed \cup {"usage"}
    /\ exit_status' = 1
    /\ pc' = "exit"
    /\ UNCHANGED <<argv, audio, file, zero_div, analysis_vars>>

\* lines 26-49: the librosa calls; what they raise is caught at lines 189-191
Load ==
    /\ pc = "main"
    /\ Len(argv) >= 1
    /\ IF audio.raises
       THEN /\ printed' = printed \cup {"error"}
            /\ exit_status' = 1
            /\ pc' = "exit"
            /\ UNCHANGED <<duration, tempo, beat_times, onset_env, onset_times>>
       ELSE /\ duration' = Seconds(audio.duration)
            /\ beat_times' = [n \in DOMAIN audio.beat_times |-> Seconds(audio.beat_times[n])]
            /\ tempo' = IF Len(audio.tempo) > 0 THEN Float(audio.tempo[1], 10)
                                                ELSE default_tempo
            /\ onset_env' = Values(audio.onset)
            /\ onset_times' = [n \in DOMAIN audio.onset_times |->
                                  Seconds(audio.onset_times[n])]
            /\ pc' = "normalize"
            /\ UNCHANGED <<printed, exit_status>>
    /\ UNCHANGED <<argv, audio, file, zero_div,
                   bass_energy, mid_energy, high_energy, spec_times, bass_threshold,
                   drops, last_drop_time, big_drops, last_big_drop_time,
                   i, ticks, k, timeline, data>>

\* lines 52-85: normalisation, the percentile threshold, the first loop's start
Normalize ==
    /\ pc = "normalize"
    /\ onset_env' = NormalizeOnset(onset_env)
    /\ zero_div' = IF FIsZero(Max(onset_env)) THEN zero_div \cup {52} ELSE zero_div
    /\ bass_energy' = NormalizeBand(Values(audio.bass))
    /\ mid_energy' = NormalizeBand(Values(audio.mid))
    /\ high_energy' = NormalizeBand(Values(audio.high))
    /\ spec_times' = [n \in DOMAIN audio.spec_times |-> Seconds(audio.spec_times[n])]
    /\ bass_threshold' = Percentile(bass_energy', threshold_percentile)
    /\ drops' = <<>>
    /\ last_drop_time' = FNeg(min_drop_gap)
    /\ i' = 1
    /\ pc' = "drops"
    /\ UNCHANGED <<argv, audio, file, printed, exit_status,
                   duration, tempo, beat_times, onset_times,
                   big_drops, last_big_drop_time, ticks, k, timeline, data>>

\* lines 85-94: one iteration of the transient-drop loop
DropStep ==
    /\ pc = "drops"
    /\ i < Len(bass_energy)
    /\ LET t == spec_times[i + 1]
       IN  IF i > lookback /\ IsSpike(bass_energy, bass_threshold, i)
                           /\ DropGapOk(t, last_drop_time)
           THEN /\ drops' = Append(drops, RoundTime(t))
                /\ last_drop_time' = t
           ELSE UNCHANGED <<drops, last_drop_time>>
    /\ i' = i + 1
    /\ UNCHANGED <<pc, argv, audio, file, printed, exit_status, zero_div,
                   duration, tempo, beat_times, onset_env, onset_times,
                   bass_energy, mid_energy, high_energy, spec_times, bass_threshold,
                   big_drops, last_big_drop_time, ticks, k, timeline, data>>

\* lines 96-107: the first loop ends, the big-drop loop starts
DropsDone ==
    /\ pc = "drops"
    /\ i >= Len(bass_energy)
    /\ big_drops' = <<>>
    /\ last_big_drop_time' = FNeg(min_big_drop_gap)
    /\ i' = window_before
    /\ pc' = "big_drops"
    /\ UNCHANGED <<argv, audio, file, printed, exit_status, zero_div,
                   duration, tempo, beat_times, onset_env, onset_times,
                   bass_energy, mid_energy, high_energy, spec_times, bass_threshold,
                   drops, last_drop_time, ticks, k, timeline, data>>

\* lines 116-124 for the frame at time t, given the two window means;
\* line 124 divides bass_after by bass_before whatever bass_before is
BigDropTest(t, before, after) ==
    IF IsBassLineStart(before, after) /\ BigDropGapOk(t, last_big_drop_time)
    THEN /\ big_drops' = Append(big_drops, BigDrop(t, duration, before, after))
         /\ last_big_drop_time' = t
         /\ zero_div' = zero_div
                          \cup (IF FIsZero(duration) THEN {120, 124} ELSE {})
                          \cup (IF FIsZero(before) THEN {124} ELSE {})
    ELSE UNCHANGED <<big_drops, last_big_drop_time, zero_div>>

\* lines 107-124: one iteration of the big-drop loop
BigDropStep ==
    /\ pc = "big_drops"
    /\ i < Len(bass_energy) - window_after
    /\ BigDropTest(spec_times[i + 1], BassBefore(bass_energy, i), BassAfter(bass_energy, i))
    /\ i' = i + 1
    /\ UNCHANGED <<pc, argv, audio, file, printed, exit_status,
                   duration, tempo, beat_times, onset_env, onset_times,
                   bass_energy, mid_energy, high_energy, spec_times, bass_threshold,
                   drops, last_drop_time, ticks, k, timeline, data>>

\* lines 126-131: the second loop ends, the tick grid is built
BigDropsDone ==
    /\ pc = "big_drops"
    /\ i >= Len(bass_energy) - window_after
    /\ ticks' = Arange(duration, sample_interval)
    /\ timeline' = <<>>
    /\ k' = 0
    /\ pc' = "timeline"
    /\ UNCHANGED <<argv, audio, file, printed, exit_status, zero_div,
                   duration, tempo, beat_times, onset_env, onset_times,
                   bass_energy, mid_energy, high_energy, spec_times, bass_threshold,
                   drops, last_drop_time, big_drops, last_big_drop_time, i, data>>

\* lines 131-151: one tick of the timeline
TickStep ==
    /\ pc = "timeline"
    /\ k < Len(ticks)
    /\ timeline' = Append(timeline, Entry(ticks[k + 1]))
    /\ k' = k + 1
    /\ UNCHANGED <<pc, argv, audio, file, printed, exit_status, zero_div,
                   duration, tempo, beat_times, onset_env, onset_times,
                   bass_energy, mid_energy, high_energy, spec_times, bass_threshold,
                   drops, last_drop_time, big_drops, last_big_drop_time, i, ticks, data>>

\* lines 154-164 and 176: the result is assembled and returned to main
Assemble ==
    /\ pc = "timeline"
    /\ k >= Len(ticks)
    /\ data' = [duration  |-> PyRound(duration, 100),
                tempo     |-> PyRound(tempo, 10),
                beatCount |-> Len(beat_times),
                beats     |-> [n \in DOMAIN beat_times |-> RoundTime(beat_times[n])],
                drops     |-> drops,
                bigDrops  |-> big_drops,
                timeline  |-> timeline]
    /\ pc' = "open"
    /\ UNCHANGED <<argv, audio, file, printed, exit_status, zero_div,
                   duration, tempo, beat_times, onset_env, onset_times,
                   bass_energy, mid_energy, high_energy, spec_times, bass_threshold,
                   drops, last_drop_time, big_drops, last_big_drop_time,
                   i, ticks, k, timeline>>

\* line 180: open(output_file, 'w') creates or truncates the file, or raises
\* and leaves it alone
OpenFile ==
    /\ pc = "open"
    /\ \E ok \in BOOLEAN :
          IF ok
          THEN /\ file' = "empty"
               /\ pc' = "dump"
               /\ UNCHANGED <<printed, exit_status>>
          ELSE /\ printed' = printed \cup {"error"}
               /\ exit_status' = 1
               /\ pc' = "exit"
               /\ UNCHANGED file
    /\ UNCHANGED <<argv, audio, zero_div, analysis_vars>>

\* line 181: json.dump writes the document piece by piece; a write that
\* raises leaves what was written before it
Dump ==
    /\ pc = "dump"
    /\ \E written \in {"complete", "partial", "empty"} :
          /\ file' = written
          /\ IF written = "complete"
             THEN /\ pc' = "saved"
                  /\ UNCHANGED <<printed, exit_status>>
             ELSE /\ printed' = printed \cup {"error"}
                  /\ exit_status' = 1
                  /\ pc' = "exit"
    /\ UNCHANGED <<argv, audio, zero_div, analysis_vars>>

\* lines 183-187: the summary, and main returns
Success ==
    /\ pc = "saved"
    /\ printed' = printed \cup {"success"}
    /\ pc' = "exit"
    /\ UNCHANGED <<argv, audio, file, exit_status, zero_div, analysis_vars>>

Next ==
    \/ Usage
    \/ Load
    \/ Normalize
    \/ DropStep
    \/ DropsDone
    \/ BigDropStep
    \/ BigDropsDone
    \/ TickStep
    \/ Assemble
    \/ OpenFile
    \/ Dump
    \/ Success

(***************************************************************************)
(* What librosa can yield: the inputs of the model                         *)
(***************************************************************************)
ShortLen == 12          \* frames of the short curves
LongLen == 66           \* frames of the curves long enough for the big-drop loop
MaxTicks == 24          \* ticks of the longest timeline
MaxBeats == 2           \* beats of the longest beat list

Min(a, b) == IF a < b THEN a ELSE b

\* a flat curve with spikes at the frames of P, and its own first frame
SpikeCurve(n, first, base, spike, P) ==
    [j \in 1..n |-> IF j = 1 THEN first ELSE IF (j - 1) \in P THEN spike ELSE base]

\* a curve that rises by one unit a frame up to a cap
RampCurve(n, base, cap) == [j \in 1..n |-> Min(cap, base + j - 1)]

\* a curve that is lo before frame J and hi from it on
StepCurve(n, lo, hi, J) == [j \in 1..n |-> IF j - 1 < J THEN lo ELSE hi]

\* a step curve whose last frame alone is at `top`
PeakedStep(n, lo, hi, J, top) ==
    [j \in 1..n |-> IF j = n THEN top ELSE IF j - 1 < J THEN lo ELSE hi]

\* frame times off, off + step, ... with frame kk coming gap after frame kk - 1
Axis(n, off, step, kk, gap) ==
    [j \in 1..n |-> off + (j - 1) * step + (IF j - 1 >= kk THEN gap - step ELSE 0)]

\* 1/32 s, 0.05 s, 2 s and 10 s as counts of 1/TimeDen s
FrameStep == TimeDen \div 32

TickUnits == TimeDen \div 20

DropGapUnits == 2 * TimeDen

BigDropGapUnits == 10 * TimeDen

\* levels (first frame, base, spike): spikes below, at and above 1.5 times
\* the base, over a zero and a non-zero base
ShortCurves ==
    {SpikeCurve(ShortLen, lv[1], lv[2], lv[3], P) :
        lv \in {<<4, 2, 3>>, <<4, 2, 4>>, <<4, 0, 3>>, <<4, 0, 4>>, <<2, 2, 4>>, <<0, 0, 4>>,
                <<10, 6, 9>>},
        P \in (SUBSET {5, 6, 7, 9}) \ {{}}}
    \cup {RampCurve(ShortLen, b, c) : b \in {0, 4}, c \in {8, 16}}

\* the frame axes: every frame FrameStep after the one before, but frame kk,
\* which comes after a pause of about min_gap; the axis from `odd` is one
\* whose pause of min_gap is longer than min_gap once the times are doubles
Axes(n, kk, min_gap, odd) ==
    {Axis(n, 0, FrameStep, kk, gap) : gap \in {FrameStep, min_gap}}
    \cup {Axis(n, 8, FrameStep, kk, gap) : gap \in {FrameStep, min_gap, min_gap + 2}}
    \cup {Axis(n, odd, FrameStep, kk, min_gap)}

ShortAxes == Axes(ShortLen, 7, DropGapUnits, 26002)

LongCurves ==
    {StepCurve(LongLen, lo, hi, J) :
        lo \in {0, 1, 2}, hi \in {8, 10}, J \in {39, 40, 41, 45, 48, 58, 60, 63}}
    \cup {PeakedStep(LongLen, 36, 126, 44, 274), StepCurve(LongLen, 2, 15, 41)}

LongAxes == Axes(LongLen, 41, BigDropGapUnits, 198170)

BandCurves == {<<0, 0, 0, 0>>, <<1, 2000, 125, 8>>, <<3, 1, 2, 0>>}

GridAxes == {<<0, 1000, 3000, 5000>>, <<0, 800, 1600, 2400>>}

OnsetAxes == {<<0, 1000, 3000, 5000>>, <<0, 2000, 4000, 6000>>}

Durations ==
    {0, 1, 40, 120, 200, TickUnits - 1, TickUnits, TickUnits + 1,
     6 * TickUnits, 12 * TickUnits, MaxTicks * TickUnits}

BeatCandidates == {0, 4, 199, 200, 201, 1800, TimeDen}

\* ascending beat lists of at most MaxBeats beats
RECURSIVE BeatLists(_)
BeatLists(n) ==
    IF n = 0 THEN {<<>>}
    ELSE BeatLists(n - 1) \cup
         {Append(b, x) : b \in {c \in BeatLists(n - 1) : Len(c) = n - 1},
                         x \in BeatCandidates}

Ascending(s) == \A n \in 1..(Len(s) - 1) : s[n] < s[n + 1]

Audio(dur, tp, beats, onset, otimes, bass, mid, high, stimes) ==
    [raises |-> FALSE, duration |-> dur, tempo |-> tp, beat_times |-> beats,
     onset |-> onset, onset_times |-> otimes,
     bass |-> bass, mid |-> mid, high |-> high, spec_times |-> stimes]

\* short curves with spikes and ramps: the transient-drop loop
TransientInputs ==
    {Audio(6 * TickUnits, <<1200>>, <<>>, c, a, c, c, c, a) :
        c \in ShortCurves, a \in ShortAxes}

\* long step curves: the big-drop loop
SustainedInputs ==
    {Audio(TimeDen \div 8, <<1200>>, <<>>, c, a, c, c, c, a) :
        c \in LongCurves, a \in LongAxes}

\* four frames, every combination of band and onset curves: normalisation
\* and sampling
CurveInputs ==
    {Audio(12 * TickUnits, <<1200>>, <<199>>, o, oa, b, m, h, sa) :
        o \in BandCurves, b \in BandCurves, m \in BandCurves, h \in BandCurves,
        oa \in OnsetAxes, sa \in GridAxes}

\* four frames, every duration and beat list: the tick grid and the beat flag
Grid(d, tp, bl, sa) ==
    Audio(d, tp, bl, <<1, 2000, 125, 8>>, <<0, 1000, 3000, 5000>>,
          <<1, 2000, 125, 8>>, <<3, 1, 2, 0>>, <<0, 0, 0, 0>>, sa)

\* four frames, every duration and tempo, no beat
QuietInputs ==
    {Grid(d, tp, <<>>, sa) :
        d \in Durations, tp \in {<<>>, <<1200>>, <<905, 1800>>}, sa \in GridAxes}

\* four frames, every duration and beat list: the tick grid and the beat flag
GridInputs ==
    {Grid(d, <<1200>>, bl, sa) :
        d \in Durations, bl \in {b \in BeatLists(MaxBeats) : Ascending(b)},
        sa \in GridAxes}

\* files librosa cannot load or analyse
Unreadable == {[a EXCEPT !.raises = TRUE] : a \in {Grid(1, <<1200>>, <<>>, sa) : sa \in GridAxes}}

Inputs ==
    TransientInputs \cup SustainedInputs \cup CurveInputs \cup GridInputs
    \cup QuietInputs \cup Unreadable

NoData ==
    [duration |-> 0, tempo |-> 0, beatCount |-> 0, beats |-> <<>>,
     drops |-> <<>>, bigDrops |-> <<>>, timeline |-> <<>>]

Init ==
    /\ pc = "main"
    /\ argv \in {<<>>, <<"music.mp3">>}
    /\ file \in {"absent", "previous"}
    /\ audio \in (IF argv = <<>> THEN {Grid(0, <<1200>>, <<>>, sa) : sa \in GridAxes}
                  ELSE IF file = "previous" THEN QuietInputs \cup Unreadable
                  ELSE Inputs)
    /\ printed = {}
    /\ exit_status = 0
    /\ zero_div = {}
    /\ duration = FZero
    /\ tempo = FZero
    /\ beat_times = <<>>
    /\ onset_env = <<>>
    /\ onset_times = <<>>
    /\ bass_energy = <<>>
    /\ mid_energy = <<>>
    /\ high_energy = <<>>
    /\ spec_times = <<>>
    /\ bass_threshold = FZero
    /\ drops = <<>>
    /\ last_drop_time = FZero
    /\ big_drops = <<>>
    /\ last_big_drop_time = FZero
    /\ i = 0
    /\ ticks = <<>>
    /\ k = 0
    /\ timeline = <<>>
    /\ data = NoData

Spec == Init /\ [][Next]_vars

(***************************************************************************)
(* The claims                                                              *)
(***************************************************************************)
TimelineDone == pc \in {"open", "dump", "saved"}

AfterBigDrops == pc \in {"timeline", "open", "dump", "saved"}

Abs(x) == IF x < 0 THEN -x ELSE x

\* C1 as claimed: consecutive emitted drops (rounded to 3 decimals) are more
\* than 2.0 s apart.
C1_Original ==
    \A n \in 1..(Len(drops) - 1) : drops[n + 1] - drops[n] > 2 * 1000

\* C1 as amended: consecutive emitted drops (rounded to 3 decimals) are at
\* least 2.0 s apart, so the list is strictly increasing.
C1_Amended ==
    \A n \in 1..(Len(drops) - 1) : drops[n + 1] - drops[n] >= 2 * 1000

\* two drops were emitted, exactly 2.000 s apart once rounded
C1_Witness ==
    /\ Len(drops) >= 2
    /\ drops[2] - drops[1] = 2 * 1000

\* C2 as claimed: consecutive emitted big drops have (rounded) times more
\* than 10.0 s apart.
C2_Original ==
    \A n \in 1..(Len(big_drops) - 1) :
        big_drops[n + 1].time - big_drops[n].time > 10 * 1000

\* C2 as amended: consecutive emitted big drops have (rounded) times at
\* least 10.0 s apart, so the list is strictly increasing in time.
C2_Amended ==
    \A n \in 1..(Len(big_drops) - 1) :
        big_drops[n + 1].time - big_drops[n].time >= 10 * 1000

\* two big drops were emitted, exactly 10.000 s apart once rounded
C2_Witness ==
    /\ Len(big_drops) >= 2
    /\ big_drops[2].time - big_drops[1].time = 10 * 1000

\* C3: a run that fails has printed an error message, exits non-zero and
\* has left music_timeline.json as it found it; the file is written only by
\* a run that succeeds.
C3_NoPartialOutput ==
    pc = "exit" =>
        IF exit_status = 0
        THEN file = "complete"
        ELSE /\ file \in {"absent", "previous"}
             /\ printed \cap {"error", "usage"} # {}

\* what the claim asks of one normalised curve
NormalizedOk(raw, curve) ==
    /\ \A n \in DOMAIN curve :
          /\ curve[n].k = "num"
          /\ ~FLess(curve[n], FZero)
          /\ ~FLess(FInt(1), curve[n])
    /\ IF \E n \in DOMAIN raw : raw[n] > 0
       THEN \E n \in DOMAIN curve : curve[n] = FInt(1)
       ELSE \A n \in DOMAIN curve : FIsZero(curve[n])

\* C4: each of the four curves is normalised to maximum 1 within [0, 1], or
\* stays all zero when its source is all zero; no division by zero runs and
\* no non-finite value reaches the timeline.
C4_Normalization ==
    Len(bass_energy) > 0 =>
        /\ NormalizedOk(audio.onset, onset_env)
        /\ NormalizedOk(audio.bass, bass_energy)
        /\ NormalizedOk(audio.mid, mid_energy)
        /\ NormalizedOk(audio.high, high_energy)
        /\ 52 \notin zero_div
        /\ \A n \in DOMAIN timeline :
              {timeline[n].onset, timeline[n].bass, timeline[n].mid, timeline[n].high}
                  \cap {NaN, Inf} = {}

\* C5: the timeline has ceil(duration / 0.05) entries (none when
\* duration <= 0), and entry number m (from 0) has t = m * 0.05 < duration.
C5_TimelineCoverage ==
    TimelineDone =>
        LET n == Len(timeline)
        IN  /\ audio.duration <= 0 => n = 0
            /\ audio.duration > 0 => /\ n * TickUnits >= audio.duration
                                     /\ (n - 1) * TickUnits < audio.duration
            /\ \A m \in 1..n :
                  /\ timeline[m].t = 50 * (m - 1)
                  /\ timeline[m].t * TimeDen < 1000 * audio.duration
                  /\ FLess(ticks[m], duration)

\* a finished timeline of 12 entries for a duration of 0.6 s
C5_Witness ==
    /\ pc = "open"
    /\ audio.duration = 12 * TickUnits
    /\ Len(timeline) = 12

\* the bass band is 0.05 for its first J frames and 0.5 from frame J on
QuietThenLoud(J) == audio.bass = StepCurve(Len(audio.bass), 1, 10, J)

EvenlySpaced(times) ==
    \A n \in 1..(Len(times) - 1) : times[n + 1] - times[n] = FrameStep

\* the first frame of the big-drop loop whose window after it is loud enough
FirstLoudFrame(J) == IF J - 15 > window_before THEN J - 15 ELSE window_before

\* C6 as claimed: for a quiet prefix of J >= 40 frames of 0.05 followed by
\* 0.5, exactly one big drop is emitted, at the jump frame J, with
\* intensity 10.0.
C6_Original ==
    \A J \in window_before..(Len(audio.bass) - window_after) :
        (AfterBigDrops /\ QuietThenLoud(J) /\ EvenlySpaced(audio.spec_times)) =>
            /\ Len(big_drops) = 1
            /\ big_drops[1].time = RoundTime(Seconds(audio.spec_times[J + 1]))
            /\ big_drops[1].intensity = 1000

\* C6 as amended: exactly one big drop is emitted, at frame
\* f = max(40, J - 15), the first scanned frame whose after-window mean is
\* above 0.3, with intensity 10.0 - 0.45 * (J - f); it is the jump frame,
\* with intensity 10.0, only when J = 40.  (f must be a frame of the loop,
\* and the loop's last candidate, frame J + 2, not over 10 s after f by
\* the subtraction of line 117.)
C6_Amended ==
    \A J \in window_before..Len(audio.bass) :
        LET first_loud == FirstLoudFrame(J)
            last_quiet == Min(J + 2, Len(audio.bass) - window_after - 1)
        IN  (/\ AfterBigDrops
             /\ QuietThenLoud(J)
             /\ first_loud < Len(audio.bass) - window_after
             /\ ~FLess(FInt(10), FSub(Seconds(audio.spec_times[last_quiet + 1]),
                                      Seconds(audio.spec_times[first_loud + 1])))) =>
                /\ Len(big_drops) = 1
                /\ big_drops[1].time = RoundTime(Seconds(audio.spec_times[first_loud + 1]))
                /\ big_drops[1].intensity = 1000 - 45 * (J - first_loud)

\* a quiet prefix longer than 40 frames whose one big drop came before the
\* jump, with intensity 3.25
C6_Witness ==
    /\ pc = "open"
    /\ QuietThenLoud(58)
    /\ EvenlySpaced(audio.spec_times)
    /\ Len(big_drops) = 1
    /\ big_drops[1].intensity = 325

\* C7: every beat time b with 0 <= b < last tick + 0.025 sets beat = true on
\* exactly one timeline entry, and an entry is flagged only for a beat
\* within 0.025 of it.
C7_BeatOnce ==
    (TimelineDone /\ Len(timeline) > 0) =>
        /\ \A n \in DOMAIN audio.beat_times :
              (/\ 0 <= audio.beat_times[n]
               /\ 2 * audio.beat_times[n] < (2 * Len(timeline) - 1) * TickUnits) =>
                  Cardinality({m \in DOMAIN timeline :
                      /\ timeline[m].beat
                      /\ 2 * Abs(audio.beat_times[n] - (m - 1) * TickUnits) <= TickUnits}) = 1
        /\ \A m \in DOMAIN timeline :
              timeline[m].beat =>
                  \E n \in DOMAIN audio.beat_times :
                      2 * Abs(audio.beat_times[n] - (m - 1) * TickUnits) <= TickUnits

\* C8: when the big-drop loop flags a frame, a zero before-mean gives
\* intensity exactly 10.0 with no division by zero evaluated and the scan
\* going on; a positive one gives after/before rounded to 2 decimals, which
\* is above 3 before rounding.
C8_ZeroBefore ==
    [][(pc = "big_drops" /\ Len(big_drops') > Len(big_drops)) =>
          LET before == BassBefore(bass_energy, i)
              after  == BassAfter(bass_energy, i)
              rec    == big_drops'[Len(big_drops')]
          IN  /\ pc' = "big_drops"
              /\ i' = i + 1
              /\ IF FIsZero(before)
                 THEN rec.intensity = 1000 /\ zero_div' = zero_div
                 ELSE /\ rec.intensity = PyRound(Div32(after, before), 100)
                      /\ FLess(FInt(3), Div32(after, before))]_vars

\* frame idx exceeds 1.5 times the mean of the 5 frames before it, in the
\* float32 arithmetic of the curve, the sum taken from the earliest frame on
ExceedsRecent(curve, idx) ==
    LET sum == Add32(Add32(Add32(Add32(curve[idx - 4], curve[idx - 3]), curve[idx - 2]),
                           curve[idx - 1]), curve[idx])
    IN  FLess(Mul32(Div32(sum, FInt(5)), Float(15, 10)), curve[idx + 1])

\* frame idx lies above the 85th percentile of the curve: more than
\* floor(0.85 * (n - 1)) frames lie strictly below it
AbovePercentile(curve, idx) ==
    Cardinality({j \in DOMAIN curve : FLess(curve[j], curve[idx + 1])})
        > (85 * (Len(curve) - 1)) \div 100

\* C9: the loop starts with lastDropTime = -2.0; at frame i (time t) a drop
\* is recorded iff i > 5, bass[i] is above the 85th percentile, bass[i] is
\* above 1.5 times the mean of the 5 frames before, and t - lastDropTime >
\* 2.0; lastDropTime becomes t only then.  A curve with no frame above 1.5
\* times the mean of the 5 before it yields no drop: where there is a drop,
\* there is such a frame.
C9_TransientRule ==
    /\ [][(pc = "drops" /\ i' = i + 1) =>
             LET t      == spec_times[i + 1]
                 record == /\ i > 5
                           /\ AbovePercentile(bass_energy, i)
                           /\ ExceedsRecent(bass_energy, i)
                           /\ FLess(FInt(2), FSub(t, last_drop_time))
             IN  IF record
                 THEN drops' = Append(drops, RoundTime(t)) /\ last_drop_time' = t
                 ELSE drops' = drops /\ last_drop_time' = last_drop_time]_vars
    /\ []((pc = "drops" /\ i = 1) => (last_drop_time = FInt(-2) /\ drops = <<>>))
    /\ [](drops # <<>> => \E idx \in 5..(Len(bass_energy) - 1) : ExceedsRecent(bass_energy, idx))

\* the transient loop has recorded a drop and is still running
C9_Witness ==
    /\ pc = "drops"
    /\ Len(drops) >= 1

\* the lowest index whose frame time is nearest to t
Nearest(times, t) ==
    CHOOSE j \in 0..(Len(times) - 1) :
        /\ \A m \in 0..(Len(times) - 1) :
              ~FLess(AbsDiff(times[m + 1], t), AbsDiff(times[j + 1], t))
        /\ \A m \in 0..(j - 1) : FLess(AbsDiff(times[j + 1], t), AbsDiff(times[m + 1], t))

\* C10: at every tick t, bass, mid and high are the rounded values of the
\* three band curves at one frame, the lowest index nearest to t on the
\* spectrogram axis, and onset is the onset curve's value at the lowest
\* index nearest to t on the onset axis (every entry of a finished timeline).
C10_NearestFrame ==
    pc = "open" =>
        \A n \in DOMAIN timeline :
            LET t == FMul(FInt(n - 1), Float(5, 100))
                j == Nearest(spec_times, t)
                o == Nearest(onset_times, t)
            IN  /\ timeline[n].bass = PyRound(bass_energy[j + 1], 1000)
                /\ timeline[n].mid = PyRound(mid_energy[j + 1], 1000)
                /\ timeline[n].high = PyRound(high_energy[j + 1], 1000)
                /\ timeline[n].onset = PyRound(onset_env[o + 1], 1000)

\* the tick at 0.25 s lies midway between the frames at 0.125 s and 0.375 s,
\* whose bass values differ, and took the earlier one
C10_Witness ==
    /\ pc = "open"
    /\ audio.spec_times = <<0, 1000, 3000, 5000>>
    /\ Len(timeline) >= 6
    /\ bass_energy[2] # bass_energy[3]
    /\ timeline[6].bass = PyRound(bass_energy[2], 1000)

====
